---- MODULE Spec2Model ----
(***************************************************************************)
(* Document-workflow and billing backend (Express handlers over a          *)
(* Supabase datastore).  The model follows the latest iteration of the     *)
(* API: the document review pipeline (create, post-assignee, save-draft,   *)
(* publish) and the invoice engine (generate-invoices, other-invoices,     *)
(* submit).  Every handler is one action, except where a claim is about    *)
(* overlapping requests: there a handler is split at its datastore awaits. *)
(*                                                                         *)
(* Money is fixed point: one unit is 1e-5, so that rounding to 4 decimals  *)
(* (toFixed(4)) is a real operation on the values.                         *)
(***************************************************************************)
EXTENDS Integers, Sequences, FiniteSets, TLC

VARIABLES
    documents,        \* table documents: id -> row
    republished,      \* /publish updates served on an already published document (audit count)
    companies,        \* table companies: id -> row
    clients,          \* table clients: id -> row
    invoices,         \* table invoices: id -> row
    custom_invoices,  \* table custom_invoices: id -> row
    client_invoices,  \* table client_invoices: id -> row
    now,              \* the server clock, in months since year 0
    gen,              \* in-flight /generate-invoices requests: process -> locals
    adj,              \* in-flight /invoices/:id/other-invoices requests: process -> locals
    cmt,              \* in-flight /documents/:id/add-comment requests: process -> locals
    inc,              \* in-flight usage-counter increments: process -> locals
    lost_updates,     \* counter updates that wrote over a value newer than the one read (audit count)
    reminders,        \* the last /remind-invoices run: [attempts, results]
    assignees,        \* the body of the last GET /get-assignee response: the ids of the rows
    view,             \* the body of the last GET /documents/:id response: [id, showMore]
    overwritten,      \* add-comment updates that replaced a list newer than the one read (audit count)
    logins,           \* the login columns: users id -> [email, password], clients id -> [password]
    session,          \* the claims of the token POST /login issued last, or NoSession
    resp              \* the last response sent: [op, status, error]

vars == <<documents, republished, companies, clients, invoices, custom_invoices,
          client_invoices, now, gen, adj, cmt, overwritten, view, assignees, inc,
          lost_updates, reminders, logins, session, resp>>

docVars == <<documents, republished>>
invVars == <<invoices, custom_invoices, client_invoices>>
cmtVars == <<cmt, overwritten>>
usageVars == <<inc, lost_updates>>
loginVars == <<logins, session>>
auxVars == <<cmtVars, view, assignees, usageVars, reminders, loginVars>>
reqVars == <<gen, adj, auxVars>>

(***************************************************************************)
(* Bounds of the model.                                                    *)
(***************************************************************************)
MaxDocs == 1
MaxPublish == 1
MaxGen == 2
MaxMonths == 1
MaxUsage == 1
MaxAdj == 2
MaxAdjCalls == 2
MaxCustom == 1
MaxComments == 2
MaxLost == 1

Null == "null"
NoError == ""

(***************************************************************************)
(* Identity: the users (employees) table and the session tokens.           *)
(***************************************************************************)
users ==
    ( "u1" :> [company_id |-> "t1", role |-> "Owner"]   ) @@
    ( "u2" :> [company_id |-> "t1", role |-> "Scanner"] ) @@
    ( "u3" :> [company_id |-> "t1", role |-> "Indexer"] ) @@
    ( "u4" :> [company_id |-> "t1", role |-> "QA"]      ) @@
    ( "u5" :> [company_id |-> "t2", role |-> "manager"] ) @@
    ( "u6" :> [company_id |-> "t2", role |-> "qa"]      ) @@
    ( "a1" :> [company_id |-> Null, role |-> "admin"]   )

ClientIds == {"c1", "c2"}

ClientCompany(c) == IF c = "c1" THEN "t1" ELSE "t2"

\* The claims of a session token: jwt payload {userId, companyId, role}.
UserTokens ==
    { [userId |-> u, companyId |-> users[u].company_id, role |-> users[u].role] :
        u \in DOMAIN users }

ClientTokens ==
    { [userId |-> c, companyId |-> ClientCompany(c), role |-> "Client"] : c \in ClientIds }

Actors == UserTokens \cup ClientTokens

\* String.prototype.toLowerCase on the role strings in use.
ToLower(s) ==
    CASE s \in {"Owner", "owner", "OWNER"}       -> "owner"
      [] s \in {"Manager", "manager"}            -> "manager"
      [] s \in {"Scanner", "scanner"}            -> "scanner"
      [] s \in {"Indexer", "indexer", "INDEXER"} -> "indexer"
      [] s \in {"QA", "qa", "Qa"}                -> "qa"
      [] s \in {"Admin", "admin"}                -> "admin"
      [] s \in {"Client", "client"}              -> "client"
      [] OTHER                                   -> s

Resp(op, status, error) == [op |-> op, status |-> status, error |-> error]

(***************************************************************************)
(* Document lifecycle engine.                                              *)
(***************************************************************************)
document_tags ==
    ( "g1" :> [ company_id |-> "t1", properties |-> << [title |-> "Date"], [title |-> "Amount"] >> ] ) @@
    ( "g2" :> [ company_id |-> "t2", properties |-> << [title |-> "Patient"] >> ] )

\* tagData.properties.map(prop => ({ ...prop, value: '' }))
PropertiesWithValues(properties) ==
    [ i \in 1..Len(properties) |-> [ title |-> properties[i].title, value |-> "" ] ]

TagIds == {"g1", "g9"}

DocId(n) == <<"documents", n>>

\* The people an assign request may name (assignee_id is taken from the body as is).
AssigneeIds == {"u3", "u4"}

\* The actors that upload documents in the model.
Creators == { a \in Actors : a.userId \in {"u2", "c1"} }

\* POST /documents: the row that is inserted.
NewDocument(a, tag_id) ==
    [ company_id        |-> a.companyId,
      tag_id            |-> tag_id,
      properties        |-> PropertiesWithValues(document_tags[tag_id].properties),
      progress_number   |-> IF a.role \in {"Owner", "Manager", "Client"} THEN 1 ELSE 1,
      indexer_passed_id |-> Null,
      qa_passed_id      |-> Null,
      passed_to         |-> Null,
      is_published      |-> FALSE,
      added_by          |-> a.userId,
      role              |-> a.role,
      comments          |-> <<>> ]

\* POST /documents, step 4: document_uploaded + 1 on the client's or the company's row.
UploadCounted(a) ==
    IF ToLower(a.role) = "client"
    THEN /\ clients' = IF a.userId \in DOMAIN clients
                       THEN [clients EXCEPT ![a.userId].document_uploaded = @ + 1]
                       ELSE clients
         /\ UNCHANGED companies
    ELSE /\ companies' = IF a.companyId \in DOMAIN companies
                         THEN [companies EXCEPT ![a.companyId].document_uploaded = @ + 1]
                         ELSE companies
         /\ UNCHANGED clients

\* POST /documents
Create(a, tag_id) ==
    /\ Cardinality(DOMAIN documents) < MaxDocs
    /\ IF tag_id \notin DOMAIN document_tags
       THEN /\ resp' = Resp("create", 400, "Invalid tag selected.")
            /\ UNCHANGED <<docVars, companies, clients>>
       ELSE LET id == DocId(Cardinality(DOMAIN documents) + 1) IN
            /\ documents' = (id :> NewDocument(a, tag_id)) @@ documents
            /\ UNCHANGED republished
            /\ UploadCounted(a)
            /\ resp' = Resp("create", 201, NoError)
    /\ UNCHANGED <<invVars, now, reqVars>>

\* A variant of AssignBranch that lets every other role through the last branch.
AssignBranchNoElse(role) ==
    IF role \in {"owner", "manager", "scanner", "client"} THEN "indexer" ELSE "qa"

\* POST /post-assignee: the role branch that builds updateFields.
AssignBranch(role) ==
    IF role \in {"owner", "manager", "scanner", "client"} THEN "indexer"
    ELSE IF role = "indexer" THEN "qa"
    ELSE "forbidden"

\* A variant of AssignUpdate that advances progress_number in both branches.
AssignUpdateAdvancing(doc, branch, assignee_id) ==
    IF branch = "indexer"
    THEN [doc EXCEPT !.passed_to = assignee_id, !.indexer_passed_id = assignee_id,
                     !.progress_number = 2]
    ELSE [doc EXCEPT !.passed_to = assignee_id, !.qa_passed_id = assignee_id,
                     !.progress_number = 2]

\* POST /post-assignee: the row after .update(updateFields).
AssignUpdate(doc, branch, assignee_id) ==
    IF branch = "indexer"
    THEN [doc EXCEPT !.passed_to = assignee_id, !.indexer_passed_id = assignee_id]
    ELSE [doc EXCEPT !.passed_to = assignee_id, !.qa_passed_id = assignee_id,
                     !.progress_number = 2]

\* .from('documents').select('*').eq('id', document_id).eq('company_id', companyId).single()
DocOfCompany(document_id, companyId) ==
    /\ document_id \in DOMAIN documents
    /\ documents[document_id].company_id = companyId

\* POST /post-assignee
Assign(a, document_id, assignee_id) ==
    LET role == ToLower(a.role) IN
    /\ IF ~DocOfCompany(document_id, a.companyId)
       THEN /\ resp' = Resp("assign", 404, "Document not found for this company.")
            /\ UNCHANGED documents
       ELSE IF AssignBranch(role) = "forbidden"
       THEN /\ resp' = Resp("assign", 403, "You are not allowed to assign from your role.")
            /\ UNCHANGED documents
       ELSE /\ documents' = [documents EXCEPT ![document_id] =
                                AssignUpdate(@, AssignBranch(role), assignee_id)]
            /\ resp' = Resp("assign", 200, NoError)
    /\ UNCHANGED <<republished, companies, clients, invVars, now, reqVars>>

\* POST /save-draft: update({progress_number: 3})
\* A variant of SaveDraftUpdate that takes the document back out of publication.
SaveDraftUpdateUnpublishing(doc) == [doc EXCEPT !.progress_number = 3, !.is_published = FALSE]

\* A variant of SaveDraftUpdate that also publishes.
SaveDraftUpdatePublishing(doc) == [doc EXCEPT !.progress_number = 3, !.is_published = TRUE]

SaveDraftUpdate(doc) == [doc EXCEPT !.progress_number = 3]

\* POST /save-draft
SaveDraft(a, document_id) ==
    /\ IF ToLower(a.role) # "qa"
       THEN /\ resp' = Resp("save-draft", 403, "Only QA role can save drafts.")
            /\ UNCHANGED documents
       ELSE /\ documents' = [d \in DOMAIN documents |->
                                IF d = document_id /\ documents[d].company_id = a.companyId
                                THEN SaveDraftUpdate(documents[d]) ELSE documents[d]]
            /\ resp' = Resp("save-draft", 200, NoError)
    /\ UNCHANGED <<republished, companies, clients, invVars, now, reqVars>>

\* POST /publish: whether the handler lets the role through (it has no role check).
PublishAllowed(role) == TRUE

\* A variant of PublishUpdate that advances the stage instead of setting it.
PublishUpdateAdvancing(doc) ==
    [doc EXCEPT !.progress_number = @ + 1, !.is_published = TRUE]

\* POST /publish: update({progress_number: 3, is_published: true})
PublishUpdate(doc) == [doc EXCEPT !.progress_number = 3, !.is_published = TRUE]

Min(x, y) == IF x < y THEN x ELSE y

\* POST /publish
Publish(a, document_id) ==
    /\ IF ~PublishAllowed(ToLower(a.role))
       THEN /\ resp' = Resp("publish", 403, "Only QA role can publish documents.")
            /\ UNCHANGED docVars
       ELSE /\ documents' = [d \in DOMAIN documents |->
                                IF d = document_id /\ documents[d].company_id = a.companyId
                                THEN PublishUpdate(documents[d]) ELSE documents[d]]
            /\ republished' =
                  IF \E d \in DOMAIN documents :
                        /\ d = document_id
                        /\ documents[d].company_id = a.companyId
                        /\ documents[d].is_published
                  THEN Min(republished + 1, MaxPublish)
                  ELSE republished
            /\ resp' = Resp("publish", 200, NoError)
    /\ UNCHANGED <<companies, clients, invVars, now, reqVars>>

DocIds == { DocId(n) : n \in 1..MaxDocs }

\* The callers of the document routes: the employees of both tenants and the
\* client of tenant t1.
DocActors == { a \in Actors : a.userId \notin {"c2", "a1"} }

\* The spellings of role names a token may carry.
RoleSpellings ==
    { "Owner", "OWNER", "Manager", "manager", "Scanner", "scanner",
      "Client", "client", "Indexer", "INDEXER", "QA", "qa", "Qa", "admin" }

\* Tokens of employees and clients of either tenant, with the role spelled in
\* any of the ways.
AnyTokens ==
    [ userId : {"u0"}, companyId : {"t1", "t2"}, role : RoleSpellings ]

\* A variant of TargetRole that sends Indexers to Indexers.
TargetRoleIndexerOnly(role) ==
    IF role \in {"owner", "manager", "scanner", "client", "indexer"} THEN "indexer" ELSE Null

\* GET /get-assignee: the role of the next stage for a lower-cased role; Null
\* when the handler returns the empty list.
TargetRole(role) ==
    IF role = "owner" \/ role = "manager" \/ role = "scanner" \/ role = "client"
    THEN "indexer"
    ELSE IF role = "indexer" THEN "qa" ELSE Null

\* users where company_id = companyId and role ilike targetRole
UsersWithRole(companyId, targetRole) ==
    { u \in DOMAIN users :
        users[u].company_id = companyId /\ ToLower(users[u].role) = targetRole }

\* GET /get-assignee
GetAssignee(a) ==
    /\ assignees' = IF TargetRole(ToLower(a.role)) = Null
                    THEN {}
                    ELSE UsersWithRole(a.companyId, TargetRole(ToLower(a.role)))
    /\ resp' = Resp("get-assignee", 200, NoError)
    /\ UNCHANGED <<docVars, companies, clients, invVars, now, gen, adj, loginVars, cmtVars, view, usageVars, reminders>>

\* GET /documents/:id: the showMore flag computed for the caller.
ShowMore(a, document) ==
    IF \/ document.added_by = a.userId
       \/ ToLower(a.role) = "manager"
       \/ ToLower(a.role) = "owner"
    THEN document.passed_to = Null
    ELSE IF \/ document.indexer_passed_id = a.userId
            \/ document.qa_passed_id = a.userId
         THEN /\ \/ document.passed_to = document.indexer_passed_id
                 \/ document.passed_to = document.qa_passed_id
              /\ ~document.is_published
         ELSE FALSE

\* GET /documents/:id
GetDocument(a, documentId) ==
    /\ IF documentId \notin DOMAIN documents
       THEN /\ resp' = Resp("get-document", 404, "Document not found")
            /\ UNCHANGED view
       ELSE /\ view' = [id |-> documentId, showMore |-> ShowMore(a, documents[documentId])]
            /\ resp' = Resp("get-document", 200, NoError)
    /\ UNCHANGED <<docVars, companies, clients, invVars, now, gen, adj, loginVars, cmtVars, assignees, usageVars, reminders>>

\* The two add-comment requests that may be in flight together.
CommentProcs == {1, 2}

IdleCmt == [ pc |-> "idle", id |-> <<>>, existingComments |-> <<>>, updatedComments |-> <<>> ]

\* The comment texts of the requests.
CommentTexts == {"m1", "m2"}

\* PUT /documents/:id/add-comment: the name looked up for the caller (clients
\* table for the Client role, users table otherwise); <<>> when no row is found.
UserName(a) ==
    IF ToLower(a.role) = "client"
    THEN IF a.userId \in ClientIds THEN <<"name", a.userId>> ELSE <<>>
    ELSE IF a.userId \in DOMAIN users THEN <<"name", a.userId>> ELSE <<>>

\* The entry that add-comment builds.
CommentEntry(a, comment) ==
    [ comment   |-> comment,
      added_by  |-> a.userId,
      role      |-> a.role,
      name      |-> UserName(a),
      timestamp |-> now ]

\* A variant of UpdatedComments that keeps only the new entry.
UpdatedCommentsReplacing(existingComments, entry) == <<entry>>

\* updatedComments = [...existingComments, entry]
UpdatedComments(existingComments, entry) == Append(existingComments, entry)

\* add-comment up to its last await: name lookup, fetch of the document's comments.
AddCommentRead(q, a, documentId, comment) ==
    /\ cmt[q].pc = "idle"
    /\ IF UserName(a) = <<>>
       THEN /\ resp' = Resp("add-comment", 404, "User not found")
            /\ UNCHANGED cmt
       ELSE IF documentId \notin DOMAIN documents
       THEN /\ resp' = Resp("add-comment", 404, "Document not found")
            /\ UNCHANGED cmt
       ELSE /\ Len(documents[documentId].comments) < MaxComments
            /\ cmt' = [cmt EXCEPT ![q] =
                          [ pc |-> "update", id |-> documentId,
                            existingComments |-> documents[documentId].comments,
                            updatedComments |->
                                UpdatedComments(documents[documentId].comments,
                                                CommentEntry(a, comment)) ]]
            /\ UNCHANGED resp
    /\ UNCHANGED <<docVars, companies, clients, invVars, now, gen, adj, loginVars, overwritten, view, assignees, usageVars, reminders>>

\* add-comment from its update on: the full list is written back.
AddCommentWrite(q) ==
    /\ cmt[q].pc = "update"
    /\ documents' = [documents EXCEPT ![cmt[q].id].comments = cmt[q].updatedComments]
    /\ cmt' = [cmt EXCEPT ![q] = IdleCmt]
    /\ overwritten' = IF documents[cmt[q].id].comments # cmt[q].existingComments
                      THEN Min(overwritten + 1, MaxLost)
                      ELSE overwritten
    /\ resp' = Resp("add-comment", 200, NoError)
    /\ UNCHANGED <<republished, companies, clients, invVars, now, gen, adj, loginVars, view, assignees, usageVars,
                 reminders>>

\* add-comment when nothing else runs between its awaits.
AddComment(a, documentId, comment) ==
    /\ IF UserName(a) = <<>>
       THEN /\ resp' = Resp("add-comment", 404, "User not found")
            /\ UNCHANGED documents
       ELSE IF documentId \notin DOMAIN documents
       THEN /\ resp' = Resp("add-comment", 404, "Document not found")
            /\ UNCHANGED documents
       ELSE /\ Len(documents[documentId].comments) < MaxComments
            /\ documents' = [documents EXCEPT ![documentId].comments =
                                 UpdatedComments(@, CommentEntry(a, comment))]
            /\ resp' = Resp("add-comment", 200, NoError)
    /\ UNCHANGED <<republished, companies, clients, invVars, now, reqVars>>

(***************************************************************************)
(* Tenants, clients and plans.                                             *)
(***************************************************************************)
\* Rows of table plans. Prices are in money units (1e-5); 0 stands for an
\* unset (null) column.
plans ==
    ( "p1" :> [ price_description |-> 10000000, billing_duration |-> 0,
                share_count |-> 1000, share_price_per_thousand |-> 500000,
                download_count |-> 0, download_price_per_thousand |-> 15,
                upload_count |-> 10, upload_price_per_ten |-> 200000 ] ) @@
    ( "p2" :> [ price_description |-> 5000004, billing_duration |-> 2,
                share_count |-> 3, share_price_per_thousand |-> 100000,
                download_count |-> 1000, download_price_per_thousand |-> 300000,
                upload_count |-> 0, upload_price_per_ten |-> 0 ] ) @@
    ( "p3" :> [ price_description |-> 10000000, billing_duration |-> 0,
                share_count |-> 1000, share_price_per_thousand |-> 500000,
                download_count |-> 1000, download_price_per_thousand |-> 300000,
                upload_count |-> 10, upload_price_per_ten |-> 200000 ] )

\* Rows of table client_plans (monthly_bill is the base rate).
client_plans ==
    ( "q1" :> [ monthly_bill |-> 2000000, billing_duration |-> 0,
                share_count |-> 0, share_price_per_thousand |-> 100000,
                download_count |-> 0, download_price_per_thousand |-> 0,
                upload_count |-> 3, upload_price_per_ten |-> 100000 ] )

Company(status, plan_id) ==
    [ status              |-> status,
      plan_id             |-> plan_id,
      document_shared     |-> 0,
      document_downloaded |-> 0,
      document_uploaded   |-> 0,
      created_at          |-> 11,
      last_invoice_paid   |-> <<>> ]

Client(company_id, email, plan_id) ==
    [ company_id          |-> company_id,
      email               |-> email,
      status              |-> "active",
      plan_id             |-> plan_id,
      document_shared     |-> 0,
      document_downloaded |-> 0,
      document_uploaded   |-> 0,
      created_at          |-> 11,
      last_invoice_paid   |-> <<>> ]

\* The order in which a select without order returns the companies.
CompanyOrder == <<"t1", "t2", "t3">>

IdleGen ==
    [ pc |-> "idle", month |-> 0, companies |-> <<>>, existing |-> {}, i |-> 0,
      results |-> <<>> ]

IdleAdj ==
    [ pc |-> "idle", calls |-> 0, table |-> "", id |-> <<>>, invoice_value |-> 0,
      old |-> <<>>, new |-> <<>> ]

\* No token has been issued.
NoSession == [ userId |-> Null, companyId |-> Null, role |-> Null ]

\* Every employee and client starts with an email of its own and the password
\* its row was inserted with.
UserEmail ==
    ( "u1" :> "u1@mail" ) @@ ( "u2" :> "u2@mail" ) @@ ( "u3" :> "u3@mail" ) @@
    ( "u4" :> "u4@mail" ) @@ ( "u5" :> "u5@mail" ) @@ ( "u6" :> "u6@mail" ) @@
    ( "a1" :> "a1@mail" )

InitialLogins ==
    [ users   |-> [ u \in DOMAIN users |-> [ email |-> UserEmail[u], password |-> "pw1" ] ],
      clients |-> [ c \in ClientIds |-> [ password |-> "pw1" ] ] ]

\* The two counter-incrementing requests that may be in flight together.
UsageProcs == {1, 2}

IdleInc == [ pc |-> "idle", route |-> "", table |-> "", id |-> "", currentCount |-> 0 ]

\* The datastore apart from table companies, and the idle server.
InitOther ==
    /\ documents = <<>>
    /\ republished = 0
    /\ clients = ( "c1" :> Client("t1", "c1@mail", "q1") ) @@
                 ( "c2" :> Client("t2", "c2@mail", "q9") )
    /\ invoices = <<>>
    /\ custom_invoices = <<>>
    /\ client_invoices = <<>>
    /\ now = 11
    /\ gen = [p \in 1..MaxGen |-> IdleGen]
    /\ adj = [q \in 1..MaxAdj |-> IdleAdj]
    /\ cmt = [q \in CommentProcs |-> IdleCmt]
    /\ overwritten = 0
    /\ view = [id |-> <<>>, showMore |-> FALSE]
    /\ assignees = {}
    /\ inc = [q \in UsageProcs |-> IdleInc]
    /\ lost_updates = 0
    /\ reminders = [ attempts |-> <<>>, results |-> <<>> ]
    /\ logins = InitialLogins
    /\ session = NoSession
    /\ resp = Resp("none", 0, NoError)

Init ==
    /\ companies = ( "t1" :> Company("Active", "p1") ) @@
                   ( "t2" :> Company("Active", "p2") ) @@
                   ( "t3" :> Company("Inactive", "p1") )
    /\ InitOther

\* Usage counters a tenant may have accumulated when its invoice is generated.
SharedLevels == {0, 1, 2000}
DownloadedLevels == {0, 7, 500}
UploadedLevels == {0, 3, 50}

\* Tenant t1 on any plan with any of the usage levels.
InitAmounts ==
    /\ \E pl \in DOMAIN plans, s \in SharedLevels, d \in DownloadedLevels, u \in UploadedLevels :
          companies = ( "t1" :> [Company("Active", pl) EXCEPT !.document_shared = s,
                                                              !.document_downloaded = d,
                                                              !.document_uploaded = u] ) @@
                      ( "t2" :> Company("Active", "p2") ) @@
                      ( "t3" :> Company("Inactive", "p1") )
    /\ InitOther

(***************************************************************************)
(* Clock and usage.                                                        *)
(***************************************************************************)
\* Time passes: the clock moves to the next month.
Tick ==
    /\ now < 11 + MaxMonths
    /\ now' = now + 1
    /\ UNCHANGED <<docVars, companies, clients, invVars, reqVars, resp>>

\* POST /share-document: document_shared + 1 on the caller's company (the
\* shareddoc row and the document's shared flag are columns no property reads).
ShareDocument(a) ==
    /\ IF a.companyId \notin DOMAIN companies
       THEN /\ resp' = Resp("share-document", 400, "Company not found or failed to retrieve.")
            /\ UNCHANGED companies
       ELSE /\ companies[a.companyId].document_shared < MaxUsage
            /\ companies' = [companies EXCEPT ![a.companyId].document_shared = @ + 1]
            /\ resp' = Resp("share-document", 201, NoError)
    /\ UNCHANGED <<docVars, clients, invVars, now, reqVars>>

(***************************************************************************)
(* Usage counters as the handlers run them: a select of the counter, then  *)
(* an update with the value read plus one, as two separate statements.     *)
(***************************************************************************)
UsageRoutes == {"share-document", "download-document"}

\* The column each route increments.
UsageField(route) ==
    IF route = "share-document" THEN "document_shared" ELSE "document_downloaded"

\* The table and row each route increments: /share-document always the
\* caller's company, /download-document the client's own row for role client.
UsageTable(a, route) ==
    IF route = "download-document" /\ ToLower(a.role) = "client" THEN "clients" ELSE "companies"

UsageRowId(a, route) ==
    IF UsageTable(a, route) = "clients" THEN a.userId ELSE a.companyId

UsageRows(table) == IF table = "clients" THEN clients ELSE companies

UsageSuccess(route) == IF route = "share-document" THEN 201 ELSE 200

\* A variant of NewCount that increments the value stored at update time.
NewCountAtomic(currentCount, stored) == stored + 1

\* update({ counter: currentCount + 1 }): the value read earlier plus one.
NewCount(currentCount, stored) == currentCount + 1

\* The first half of a counter-incrementing request: the guards and the
\* select of the counter.
UsageRead(q, a, route, document_id) ==
    /\ inc[q].pc = "idle"
    /\ LET table == UsageTable(a, route)
           id    == UsageRowId(a, route) IN
       IF route = "download-document" /\ document_id \notin DOMAIN documents
       THEN /\ resp' = Resp(route, 404, "Document not found.")
            /\ UNCHANGED inc
       ELSE IF id \notin DOMAIN UsageRows(table)
       THEN /\ resp' = IF route = "share-document"
                       THEN Resp(route, 400, "Company not found or failed to retrieve.")
                       ELSE Resp(route, 200, NoError)
            /\ UNCHANGED inc
       ELSE /\ UsageRows(table)[id][UsageField(route)] < MaxUsage
            /\ inc' = [inc EXCEPT ![q] = [ pc |-> "update", route |-> route, table |-> table,
                                          id |-> id,
                                          currentCount |-> UsageRows(table)[id][UsageField(route)] ]]
            /\ resp' = Resp(route, 0, NoError)
    /\ UNCHANGED <<docVars, companies, clients, invVars, now, gen, adj, loginVars, cmtVars, view, assignees,
                   lost_updates, reminders>>

\* The second half: the update of the counter and the answer.
UsageWrite(q) ==
    /\ inc[q].pc = "update"
    /\ LET r      == inc[q]
           field  == UsageField(r.route)
           stored == UsageRows(r.table)[r.id][field]
           value  == NewCount(r.currentCount, stored) IN
       /\ IF r.table = "clients"
          THEN /\ clients' = [clients EXCEPT ![r.id][field] = value]
               /\ UNCHANGED companies
          ELSE /\ companies' = [companies EXCEPT ![r.id][field] = value]
               /\ UNCHANGED clients
       /\ lost_updates' = IF stored # r.currentCount THEN Min(lost_updates + 1, MaxLost)
                          ELSE lost_updates
       /\ resp' = Resp(r.route, UsageSuccess(r.route), NoError)
    /\ inc' = [inc EXCEPT ![q] = IdleInc]
    /\ UNCHANGED <<docVars, invVars, now, gen, adj, loginVars, cmtVars, view, assignees, reminders>>

(***************************************************************************)
(* Invoice engine: amounts.                                                *)
(***************************************************************************)
Abs(x) == IF x < 0 THEN -x ELSE x

\* The integer nearest to num / den (den > 0), halves away from zero.
RoundDiv(num, den) ==
    IF num >= 0 THEN (2 * num + den) \div (2 * den)
    ELSE -((2 * (-num) + den) \div (2 * den))

\* parseFloat(v.toFixed(4)) on a value in money units (1e-5).
Round4(v) == 10 * RoundDiv(v, 10)

\* parseFloat(x) || 1
OrOne(x) == IF x = 0 THEN 1 ELSE x

\* parseFloat(((used / count) * price).toFixed(4))
\* A variant of UsageAmount that bills one band whatever the usage.
UsageAmountOneBand(used, count, price) == Round4(price)

UsageAmount(used, count, price) == 10 * RoundDiv(used * price, 10 * OrOne(count))

\* Date.getFullYear, Date.getMonth and the 'Month Year' label of a date.
Year(m) == m \div 12
MonthIndex(m) == m % 12
PeriodLabel(m) == <<MonthIndex(m), Year(m)>>

\* monthDifference of /generate-invoices.
MonthDifference(current, reference) ==
    (Year(current) - Year(reference)) * 12 + (MonthIndex(current) - MonthIndex(reference))

\* new Date(company.last_invoice_paid || company.created_at); a null
\* last_invoice_paid is the empty tuple, a timestamp the tuple of its month.
ReferenceDate(row) ==
    IF row.last_invoice_paid # <<>> THEN row.last_invoice_paid[1] ELSE row.created_at

\* The row /generate-invoices inserts for a company.
InvoiceRow(company_id, company, plan, month) ==
    LET monthly         == plan.price_description
        shared_amount   == UsageAmount(company.document_shared, plan.share_count,
                                       plan.share_price_per_thousand)
        download_amount == UsageAmount(company.document_downloaded, plan.download_count,
                                       plan.download_price_per_thousand)
        upload_amount   == UsageAmount(company.document_uploaded, plan.upload_count,
                                       plan.upload_price_per_ten)
    IN [ company_id              |-> company_id,
         invoice_month           |-> PeriodLabel(month),
         invoice_value           |-> Round4(monthly + shared_amount + download_amount
                                            + upload_amount),
         monthly                 |-> monthly,
         document_shared         |-> company.document_shared,
         shared_amount           |-> shared_amount,
         document_downloaded     |-> company.document_downloaded,
         download_amount         |-> download_amount,
         document_uploaded       |-> company.document_uploaded,
         upload_amount           |-> upload_amount,
         other_invoices          |-> <<>>,
         invoice_submitted       |-> FALSE,
         invoice_submitted_admin |-> FALSE ]

InvoiceId(n) == <<"invoices", n>>

\* insert-returning on a table: the new row gets the next id.
Insert(table, name, row) == (<<name, Cardinality(DOMAIN table) + 1>> :> row) @@ table

(***************************************************************************)
(* POST /generate-invoices, split at its datastore awaits.                 *)
(***************************************************************************)
\* A variant of AlreadyInvoiced with every in place of some.
AlreadyInvoicedEvery(existing, company_id) == \A inv \in existing : inv.company_id = company_id

\* existingInvoices.some(inv => inv.company_id === company.id)
AlreadyInvoiced(existing, company_id) == \E inv \in existing : inv.company_id = company_id

\* The companies select: the Active rows, in table order.
ActiveCompanies == SelectSeq(CompanyOrder, LAMBDA t : companies[t].status = "Active")

\* The handler starts: it reads the clock and selects the Active companies.
\* (exclusive: no other invocation is in flight.)
GenStart(p, exclusive) ==
    /\ gen[p].pc \in {"idle", "done"}
    /\ exclusive => \A q \in DOMAIN gen : gen[q].pc \in {"idle", "done"}
    /\ gen' = [gen EXCEPT ![p] =
                  [ pc        |-> "existing",
                    month     |-> now,
                    companies |-> [t \in {ActiveCompanies[k] : k \in 1..Len(ActiveCompanies)}
                                      |-> companies[t]],
                    existing  |-> {},
                    i         |-> 1,
                    results   |-> <<>> ]]
    /\ UNCHANGED <<docVars, companies, clients, invVars, now, adj, auxVars, resp>>

\* select company_id from invoices where invoice_month = currentMonth
ExistingInvoices(month) ==
    { [company_id |-> invoices[id].company_id] :
        id \in { j \in DOMAIN invoices : invoices[j].invoice_month = PeriodLabel(month) } }

\* The handler reads the invoices of the current month.
GenReadExisting(p) ==
    /\ gen[p].pc = "existing"
    /\ gen' = [gen EXCEPT ![p].pc = "loop", ![p].existing = ExistingInvoices(gen[p].month)]
    /\ UNCHANGED <<docVars, companies, clients, invVars, now, adj, auxVars, resp>>

\* The status the loop body reports for a company.
Outcome(existing, company_id, company, month) ==
    IF AlreadyInvoiced(existing, company_id) THEN "Invoice already exists"
    ELSE IF company.plan_id \notin DOMAIN plans THEN "Plan not found"
    ELSE IF MonthDifference(month, ReferenceDate(company))
               < OrOne(plans[company.plan_id].billing_duration)
         THEN "Invoice not due yet"
    ELSE "Invoice created"

GenOutcome(p, t) == Outcome(gen[p].existing, t, gen[p].companies[t], gen[p].month)

\* One iteration of the loop over the companies; the response after the last.
GenStep(p) ==
    /\ gen[p].pc = "loop"
    /\ LET order   == SelectSeq(CompanyOrder, LAMBDA t : t \in DOMAIN gen[p].companies)
           t       == order[gen[p].i]
           outcome == GenOutcome(p, t)
           last    == gen[p].i = Len(order)
       IN /\ invoices' =
                 IF outcome = "Invoice created"
                 THEN Insert(invoices, "invoices",
                             InvoiceRow(t, gen[p].companies[t],
                                        plans[gen[p].companies[t].plan_id], gen[p].month))
                 ELSE invoices
          /\ gen' = [gen EXCEPT ![p].results = (t :> outcome) @@ @,
                                ![p].i = @ + 1,
                                ![p].pc = IF last THEN "done" ELSE "loop"]
          /\ resp' = IF last THEN Resp("generate-invoices", 200, NoError) ELSE resp
    /\ UNCHANGED <<docVars, companies, clients, custom_invoices, client_invoices, now, adj, auxVars>>

\* The loop of /generate-invoices over the companies, from the k-th on, when
\* nothing else runs between its awaits.
RECURSIVE GenerateFrom(_, _, _)
GenerateFrom(table, existing, k) ==
    IF k > Len(ActiveCompanies) THEN table
    ELSE LET t == ActiveCompanies[k] IN
         IF Outcome(existing, t, companies[t], now) = "Invoice created"
         THEN GenerateFrom(Insert(table, "invoices",
                                  InvoiceRow(t, companies[t], plans[companies[t].plan_id], now)),
                           existing, k + 1)
         ELSE GenerateFrom(table, existing, k + 1)

\* POST /generate-invoices served without interleaving.
GenerateInvoices ==
    /\ invoices' = GenerateFrom(invoices, ExistingInvoices(now), 1)
    /\ resp' = Resp("generate-invoices", 200, NoError)
    /\ UNCHANGED <<docVars, companies, clients, custom_invoices, client_invoices, now, reqVars>>

\* Invoice generation over tenants with accumulated usage.
NextAmounts ==
    \/ Tick
    \/ GenerateInvoices

SpecAmounts == InitAmounts /\ [][NextAmounts]_vars

(***************************************************************************)
(* PUT /invoices/:id/other-invoices and PUT /client-invoices/:id/          *)
(* other-invoices, split at the await between the select and the update.   *)
(***************************************************************************)
\* reduce((sum, item) => sum + parseFloat(item.ammount || 0), 0)
RECURSIVE SumAmmount(_)
SumAmmount(items) ==
    IF items = <<>> THEN 0 ELSE Head(items).ammount + SumAmmount(Tail(items))

Item(ammount) == [description |-> "adjustment", ammount |-> ammount]

\* The other_invoices bodies the requests carry (amounts in money units).
LineItemLists ==
    { <<>>,
      <<Item(4)>>,
      <<Item(4), Item(4)>>,
      <<Item(4), Item(4), Item(4)>>,
      <<Item(250000), Item(-100000)>> }

TableRows(table) == IF table = "invoices" THEN invoices ELSE client_invoices

\* parseFloat((invoice.invoice_value - oldSum + newSum).toFixed(4))
UpdatedInvoiceValue(invoice_value, old, new) ==
    Round4(invoice_value - SumAmmount(old) + SumAmmount(new))

\* The handler selects invoice_value and other_invoices of the invoice.
AdjRead(q, table, id, other_invoices) ==
    /\ adj[q].pc = "idle"
    /\ adj[q].calls < MaxAdjCalls
    /\ IF id \notin DOMAIN TableRows(table)
       THEN /\ resp' = Resp("other-invoices", 404, "Invoice not found")
            /\ adj' = [adj EXCEPT ![q] = [IdleAdj EXCEPT !.calls = adj[q].calls + 1]]
       ELSE /\ adj' = [adj EXCEPT ![q] =
                          [ pc            |-> "update",
                            calls         |-> adj[q].calls + 1,
                            table         |-> table,
                            id            |-> id,
                            invoice_value |-> TableRows(table)[id].invoice_value,
                            old           |-> TableRows(table)[id].other_invoices,
                            new           |-> other_invoices ]]
            /\ UNCHANGED resp
    /\ UNCHANGED <<docVars, companies, clients, invVars, now, gen, auxVars>>

\* The handler updates other_invoices and invoice_value and responds.
AdjWrite(q) ==
    /\ adj[q].pc = "update"
    /\ LET value == UpdatedInvoiceValue(adj[q].invoice_value, adj[q].old, adj[q].new)
           id    == adj[q].id
       IN IF adj[q].table = "invoices"
          THEN /\ invoices' = [invoices EXCEPT ![id].other_invoices = adj[q].new,
                                               ![id].invoice_value = value]
               /\ UNCHANGED client_invoices
          ELSE /\ client_invoices' = [client_invoices EXCEPT
                                         ![id].other_invoices = adj[q].new,
                                         ![id].invoice_value = value]
               /\ UNCHANGED invoices
    /\ adj' = [adj EXCEPT ![q] = [IdleAdj EXCEPT !.calls = adj[q].calls]]
    /\ resp' = Resp("other-invoices", 200, NoError)
    /\ UNCHANGED <<docVars, companies, clients, custom_invoices, now, gen, auxVars>>

(***************************************************************************)
(* POST /generate-client-invoices and POST /custom-invoice.                *)
(***************************************************************************)
ClientOrder == <<"c1", "c2">>

\* The row /generate-client-invoices inserts for a client.
ClientInvoiceRow(companyId, client, plan, month) ==
    LET monthly         == plan.monthly_bill
        shared_amount   == UsageAmount(client.document_shared, plan.share_count,
                                       plan.share_price_per_thousand)
        download_amount == UsageAmount(client.document_downloaded, plan.download_count,
                                       plan.download_price_per_thousand)
        upload_amount   == UsageAmount(client.document_uploaded, plan.upload_count,
                                       plan.upload_price_per_ten)
    IN [ company_id              |-> companyId,
         email                   |-> client.email,
         invoice_month           |-> PeriodLabel(month),
         invoice_value           |-> Round4(monthly + shared_amount + download_amount
                                            + upload_amount),
         monthly                 |-> monthly,
         document_shared         |-> client.document_shared,
         shared_amount           |-> shared_amount,
         document_downloaded     |-> client.document_downloaded,
         download_amount         |-> download_amount,
         document_uploaded       |-> client.document_uploaded,
         upload_amount           |-> upload_amount,
         other_invoices          |-> <<>>,
         invoice_submitted       |-> FALSE,
         invoice_submitted_admin |-> FALSE ]

\* The select ... eq(company_id).eq(email).eq(invoice_month).single(): a row is
\* returned only when exactly one matches.
ExistingClientInvoice(table, companyId, email, month) ==
    Cardinality({ id \in DOMAIN table :
                    /\ table[id].company_id = companyId
                    /\ table[id].email = email
                    /\ table[id].invoice_month = PeriodLabel(month) }) = 1

\* The loop over the clients of the company, from the k-th on.
RECURSIVE ClientInvoicesFrom(_, _, _)
ClientInvoicesFrom(table, companyId, k) ==
    IF k > Len(ClientOrder) THEN table
    ELSE LET c      == ClientOrder[k]
             client == clients[c]
         IN IF client.company_id # companyId
            THEN ClientInvoicesFrom(table, companyId, k + 1)
            ELSE IF client.plan_id \notin DOMAIN client_plans
            THEN ClientInvoicesFrom(table, companyId, k + 1)
            ELSE IF MonthDifference(now, ReferenceDate(client))
                       < OrOne(client_plans[client.plan_id].billing_duration)
            THEN ClientInvoicesFrom(table, companyId, k + 1)
            ELSE IF ExistingClientInvoice(table, companyId, client.email, now)
            THEN ClientInvoicesFrom(table, companyId, k + 1)
            ELSE ClientInvoicesFrom(
                     Insert(table, "client_invoices",
                            ClientInvoiceRow(companyId, client,
                                             client_plans[client.plan_id], now)),
                     companyId, k + 1)

\* POST /generate-client-invoices
GenerateClientInvoices(a) ==
    /\ client_invoices' = ClientInvoicesFrom(client_invoices, a.companyId, 1)
    /\ resp' = Resp("generate-client-invoices", 200, NoError)
    /\ UNCHANGED <<docVars, companies, clients, invoices, custom_invoices, now, reqVars>>

\* POST /custom-invoice
CreateCustomInvoice(a, company_id, user_id) ==
    LET role == ToLower(a.role) IN
    /\ Cardinality(DOMAIN custom_invoices) < MaxCustom
    /\ IF role = "admin" /\ company_id \notin DOMAIN companies
       THEN /\ resp' = Resp("custom-invoice", 400, "company not found")
            /\ UNCHANGED custom_invoices
       ELSE IF role = "owner" /\ user_id \notin DOMAIN clients
       THEN /\ resp' = Resp("custom-invoice", 400, "client not found")
            /\ UNCHANGED custom_invoices
       ELSE /\ custom_invoices' =
                  Insert(custom_invoices, "custom_invoices",
                         [ company_id |-> IF role = "admin" THEN company_id ELSE a.companyId,
                           is_client  |-> IF role = "admin" THEN FALSE ELSE TRUE,
                           user_id    |-> user_id,
                           invoice_submitted       |-> FALSE,
                           invoice_submitted_admin |-> FALSE ])
            /\ resp' = Resp("custom-invoice", 201, NoError)
    /\ UNCHANGED <<docVars, companies, clients, invoices, client_invoices, now, reqVars>>

(***************************************************************************)
(* PUT /invoices/:id/submit                                                *)
(***************************************************************************)
\* update({last_invoice_paid: now, document_shared: 0, ...}) on a row.
UsageReset(row) ==
    [row EXCEPT !.last_invoice_paid = <<now>>, !.document_shared = 0,
                !.document_downloaded = 0, !.document_uploaded = 0]

\* The company row the tenant-invoice branch resets: .eq('id', companyId), the
\* company of the caller's token.
SubmitResetCompany(a, invoice) == a.companyId

\* The admin gate: invoice.invoice_submitted === true
AdminGate(invoice) == invoice.invoice_submitted = TRUE

Submitted(table, id) == [table EXCEPT ![id].invoice_submitted = TRUE]
Approved(table, id) == [table EXCEPT ![id].invoice_submitted_admin = TRUE]

\* Step 3 of the handler: the client_invoices table, and the final 404.
SubmitClientInvoice(a, id) ==
    LET role == ToLower(a.role) IN
    IF id \in DOMAIN client_invoices /\ role = "client"
    THEN /\ client_invoices' = Submitted(client_invoices, id)
         /\ clients' = IF a.userId \in DOMAIN clients
                       THEN [clients EXCEPT ![a.userId] = UsageReset(@)]
                       ELSE clients
         /\ resp' = Resp("submit", 200, "Client invoice submitted and stats reset.")
    ELSE IF id \in DOMAIN client_invoices /\ role = "owner"
    THEN /\ IF AdminGate(client_invoices[id])
            THEN /\ client_invoices' = Approved(client_invoices, id)
                 /\ resp' = Resp("submit", 200, "Owner approved client invoice.")
            ELSE /\ UNCHANGED client_invoices
                 /\ resp' = Resp("submit", 400, "Client must submit the invoice first.")
         /\ UNCHANGED clients
    ELSE /\ resp' = Resp("submit", 404, "Invoice not found in any table.")
         /\ UNCHANGED <<client_invoices, clients>>

\* Step 2 of the handler: the custom_invoices table; what no branch returns
\* from falls through to step 3.
SubmitCustomInvoice(a, id) ==
    LET role == ToLower(a.role)
        inv  == custom_invoices[id]
    IN
    IF role = "client"
    THEN /\ IF inv.is_client
            THEN /\ custom_invoices' = Submitted(custom_invoices, id)
                 /\ resp' = Resp("submit", 200, "Client submitted invoice.")
            ELSE /\ UNCHANGED custom_invoices
                 /\ resp' = Resp("submit", 403, "Client cannot submit this invoice.")
         /\ UNCHANGED <<client_invoices, clients>>
    ELSE IF role = "owner" /\ inv.is_client /\ inv.invoice_submitted
    THEN /\ custom_invoices' = Approved(custom_invoices, id)
         /\ resp' = Resp("submit", 200, "Owner approved client invoice.")
         /\ UNCHANGED <<client_invoices, clients>>
    ELSE IF role = "owner" /\ ~inv.is_client
    THEN /\ custom_invoices' = Submitted(custom_invoices, id)
         /\ resp' = Resp("submit", 200, "Owner submitted invoice.")
         /\ UNCHANGED <<client_invoices, clients>>
    ELSE IF role = "admin"
    THEN /\ IF AdminGate(inv)
            THEN /\ custom_invoices' = Approved(custom_invoices, id)
                 /\ resp' = Resp("submit", 200, "Admin approved custom invoice.")
            ELSE /\ UNCHANGED custom_invoices
                 /\ resp' = Resp("submit", 400, "Invoice must be submitted first.")
         /\ UNCHANGED <<client_invoices, clients>>
    ELSE /\ SubmitClientInvoice(a, id)
         /\ UNCHANGED custom_invoices

\* PUT /invoices/:id/submit
Submit(a, id) ==
    LET role == ToLower(a.role) IN
    /\ IF id \in DOMAIN invoices
       THEN /\ IF role = "admin"
               THEN /\ IF AdminGate(invoices[id])
                       THEN /\ invoices' = Approved(invoices, id)
                            /\ resp' = Resp("submit", 200,
                                            "Admin confirmed invoice submission.")
                       ELSE /\ UNCHANGED invoices
                            /\ resp' = Resp("submit", 400,
                                   "Invoice must be submitted first by the company.")
                    /\ UNCHANGED companies
               ELSE /\ invoices' = Submitted(invoices, id)
                    /\ companies' =
                          LET c == SubmitResetCompany(a, invoices[id]) IN
                          IF c \in DOMAIN companies
                          THEN [companies EXCEPT ![c] = UsageReset(@)]
                          ELSE companies
                    /\ resp' = Resp("submit", 200, "Invoice submitted successfully.")
            /\ UNCHANGED <<custom_invoices, client_invoices, clients>>
       ELSE IF id \in DOMAIN custom_invoices
       THEN /\ SubmitCustomInvoice(a, id)
            /\ UNCHANGED <<invoices, companies>>
       ELSE /\ SubmitClientInvoice(a, id)
            /\ UNCHANGED <<invoices, custom_invoices, companies>>
    /\ UNCHANGED <<docVars, now, reqVars>>

\* The ids an adjustment request may name.
AdjIds == { <<"invoices", 1>>, <<"invoices", 9>> }

\* The ids a submit request may name.
InvoiceIds ==
    { <<"invoices", 1>>, <<"custom_invoices", 1>>, <<"client_invoices", 1>>,
      <<"invoices", 9>> }

(***************************************************************************)
(* POST /remind-invoices and POST /remind-unpaid-client-invoices: one mail *)
(* per unpaid invoice of the current month, each send in its own try.      *)
(***************************************************************************)
\* .eq('invoice_month', currentMonth).eq('invoice_submitted', false)
UnpaidInvoices(table, month) ==
    { id \in DOMAIN table :
         /\ table[id].invoice_month = PeriodLabel(month)
         /\ table[id].invoice_submitted = FALSE }

\* The rows of a select as the array the loop walks, by ascending id.
RECURSIVE RowsInOrder(_)
RowsInOrder(ids) ==
    IF ids = {} THEN <<>>
    ELSE LET first == CHOOSE id \in ids : \A other \in ids : id[2] <= other[2]
         IN <<first>> \o RowsInOrder(ids \ {first})

\* results.push(...) of /remind-invoices, after the send and in its catch.
CompanyResult(invoice, sent) ==
    IF sent THEN [ company |-> invoice.company_id, status |-> "Reminder email sent" ]
    ELSE [ company |-> invoice.company_id, status |-> "Failed to send reminder",
           error |-> "err.message" ]

\* results.push(...) of /remind-unpaid-client-invoices.
ClientResult(invoice, sent) ==
    IF sent THEN [ email |-> invoice.email, status |-> "Reminder sent" ]
    ELSE [ email |-> invoice.email, status |-> "Failed to send reminder",
           error |-> "err.message" ]

ReminderResult(table, id, sent) ==
    IF id[1] = "invoices" THEN CompanyResult(table[id], sent) ELSE ClientResult(table[id], sent)

\* A variant of RemindLoop that leaves the loop at the first failed send.
RECURSIVE RemindLoopAborting(_, _, _, _)
RemindLoopAborting(table, rows, failing, log) ==
    IF rows = <<>> THEN log
    ELSE LET id == Head(rows) IN
         IF id \in failing
         THEN [ attempts |-> Append(log.attempts, id),
                results  |-> Append(log.results, ReminderResult(table, id, FALSE)) ]
         ELSE RemindLoopAborting(table, Tail(rows), failing,
                  [ attempts |-> Append(log.attempts, id),
                    results  |-> Append(log.results, ReminderResult(table, id, TRUE)) ])

\* for (const invoice of invoices) { try { await sendMail } catch { ... } }:
\* the sends attempted and the results pushed; failing holds the invoices
\* whose send throws.
RECURSIVE RemindLoop(_, _, _, _)
RemindLoop(table, rows, failing, log) ==
    IF rows = <<>> THEN log
    ELSE LET id == Head(rows) IN
         RemindLoop(table, Tail(rows), failing,
              [ attempts |-> Append(log.attempts, id),
                results  |-> Append(log.results, ReminderResult(table, id, id \notin failing)) ])

NoReminders == [ attempts |-> <<>>, results |-> <<>> ]

\* POST /remind-invoices (no token)
RemindInvoices(failing) ==
    /\ failing \subseteq UnpaidInvoices(invoices, now)
    /\ reminders' = RemindLoop(invoices, RowsInOrder(UnpaidInvoices(invoices, now)), failing,
                               NoReminders)
    /\ resp' = Resp("remind-invoices", 200, NoError)
    /\ UNCHANGED <<docVars, companies, clients, invVars, now, gen, adj, loginVars, cmtVars, view, assignees,
                   usageVars>>

\* POST /remind-unpaid-client-invoices: the caller's tenant only; an empty
\* select answers 200 with a message.
RemindClientInvoices(a, failing) ==
    LET unpaid == { id \in UnpaidInvoices(client_invoices, now) :
                       client_invoices[id].company_id = a.companyId } IN
    /\ failing \subseteq unpaid
    /\ reminders' = RemindLoop(client_invoices, RowsInOrder(unpaid), failing, NoReminders)
    /\ resp' = Resp("remind-unpaid-client-invoices", 200,
                    IF unpaid = {} THEN "No unpaid invoices found." ELSE NoError)
    /\ UNCHANGED <<docVars, companies, clients, invVars, now, gen, adj, loginVars, cmtVars, view, assignees,
                   usageVars>>

\* The owners who submit their invoices in the reminder scenarios.
Owners == { a \in Actors : ToLower(a.role) = "owner" }

\* Invoices are generated month by month, some are submitted, and the
\* reminder jobs run.
NextRemind ==
    \/ Tick
    \/ GenerateInvoices
    \/ \E a \in Owners : GenerateClientInvoices(a)
    \/ \E a \in Owners, id \in { InvoiceId(1), InvoiceId(2), <<"client_invoices", 1>> } : Submit(a, id)
    \/ \E failing \in SUBSET UnpaidInvoices(invoices, now) : RemindInvoices(failing)
    \/ \E a \in Owners, failing \in SUBSET UnpaidInvoices(client_invoices, now) :
          RemindClientInvoices(a, failing)

\* Three Active tenants on the monthly plan, created the month before: all
\* three are due in every month of the scenario.
InitRemind ==
    /\ companies = [ t \in {"t1", "t2", "t3"} |->
                        [Company("Active", "p1") EXCEPT !.created_at = 10] ]
    /\ InitOther

SpecRemind == InitRemind /\ [][NextRemind]_vars

(***************************************************************************)
(* POST /login, and the updates that change what it reads.                 *)
(***************************************************************************)
Emails == {"u2@mail", "c1@mail", "a1@mail", "nobody@mail"}
Passwords == {"pw1", "pw2"}

\* .eq('email', email).single() on users: the id of the one matching row, or
\* the empty tuple when no row or several rows match.
UserByEmail(email) ==
    LET found == { u \in DOMAIN logins.users : logins.users[u].email = email } IN
    IF Cardinality(found) = 1 THEN <<CHOOSE u \in found : TRUE>> ELSE <<>>

\* The same select on clients.
ClientByEmail(email) ==
    LET found == { c \in DOMAIN clients : clients[c].email = email } IN
    IF Cardinality(found) = 1 THEN <<CHOOSE c \in found : TRUE>> ELSE <<>>

\* companyError || !company || company.status !== 'Active'
CompanyNotActive(company_id) ==
    \/ company_id \notin DOMAIN companies
    \/ companies[company_id].status # "Active"

\* The outcome of POST /login: the status, the error and the token claims.
LoginOutcome(email, password) ==
    LET user   == UserByEmail(email)
        client == ClientByEmail(email) IN
    IF user = <<>>
    THEN IF client # <<>> /\ logins.clients[client[1]].password = password
         THEN IF CompanyNotActive(clients[client[1]].company_id)
              THEN [ status |-> 403, error |-> "Company is not active. Please contact support.",
                     claims |-> NoSession ]
              ELSE IF clients[client[1]].status # "active"
              THEN [ status |-> 403,
                     error |-> "Your account is not active. Please contact your company admin.",
                     claims |-> NoSession ]
              ELSE [ status |-> 200, error |-> NoError,
                     claims |-> [ userId |-> client[1],
                                  companyId |-> clients[client[1]].company_id,
                                  role |-> "Client" ] ]
         ELSE [ status |-> 401, error |-> "Invalid email or password.", claims |-> NoSession ]
    ELSE IF logins.users[user[1]].password # password
    THEN [ status |-> 401, error |-> "Invalid email or password.", claims |-> NoSession ]
    ELSE IF users[user[1]].role # "admin" /\ CompanyNotActive(users[user[1]].company_id)
    THEN [ status |-> 403, error |-> "Company is not active. Please contact support.",
           claims |-> NoSession ]
    ELSE [ status |-> 200, error |-> NoError,
           claims |-> [ userId |-> user[1], companyId |-> users[user[1]].company_id,
                        role |-> users[user[1]].role ] ]

\* POST /login
Login(email, password) ==
    /\ session' = LoginOutcome(email, password).claims
    /\ resp' = Resp("login", LoginOutcome(email, password).status,
                    LoginOutcome(email, password).error)
    /\ UNCHANGED <<docVars, companies, clients, invVars, now, gen, adj, cmtVars, view, assignees,
                   usageVars, reminders, logins>>

\* PUT /users/:id with body {email, password}
PutUser(id, email, password) ==
    /\ id \in DOMAIN logins.users
    /\ logins' = [logins EXCEPT !.users[id] = [ email |-> email, password |-> password ]]
    /\ resp' = Resp("put-user", 200, NoError)
    /\ UNCHANGED <<docVars, companies, clients, invVars, now, gen, adj, cmtVars, view, assignees,
                   usageVars, reminders, session>>

\* PUT /clients/:id with body {status, password}: the row of the caller's tenant.
PutClient(a, id, status, password) ==
    /\ IF id \in DOMAIN clients /\ clients[id].company_id = a.companyId
       THEN /\ clients' = [clients EXCEPT ![id].status = status]
            /\ logins' = [logins EXCEPT !.clients[id].password = password]
       ELSE UNCHANGED <<clients, logins>>
    /\ resp' = Resp("put-client", 200, NoError)
    /\ UNCHANGED <<docVars, companies, invVars, now, gen, adj, cmtVars, view, assignees,
                   usageVars, reminders, session>>

\* PUT /companies/:id with body {status}
PutCompany(id, status) ==
    /\ companies' = IF id \in DOMAIN companies
                    THEN [companies EXCEPT ![id].status = status]
                    ELSE companies
    /\ resp' = Resp("put-company", 200, NoError)
    /\ UNCHANGED <<docVars, clients, invVars, now, reqVars>>

\* Logins while an employee's and a client's login columns and the tenant's
\* status are edited.
NextLogin ==
    \/ \E email \in Emails, password \in Passwords : Login(email, password)
    \/ \E email \in {"u2@mail", "c1@mail"}, password \in Passwords : PutUser("u2", email, password)
    \/ \E a \in Owners, status \in {"active", "inactive"}, password \in Passwords :
          PutClient(a, "c1", status, password)
    \/ \E status \in {"Active", "Inactive"} : PutCompany("t1", status)

SpecLogin == Init /\ [][NextLogin]_vars

(***************************************************************************)
(* Usage, generation month by month and submission for tenants that are    *)
(* due every month.                                                        *)
(***************************************************************************)
NextBilling ==
    \/ Tick
    \/ \E a \in Owners : ShareDocument(a)
    \/ GenerateInvoices
    \/ \E a \in Owners \cup { b \in Actors : b.userId \in {"u5", "a1"} },
          id \in { InvoiceId(1), InvoiceId(2), InvoiceId(4) } : Submit(a, id)

SpecBilling == InitRemind /\ [][NextBilling]_vars

(***************************************************************************)
(* The document engine on its own.                                         *)
(***************************************************************************)
NextDoc ==
    \/ \E a \in Creators, g \in TagIds : Create(a, g)
    \/ \E a \in DocActors, d \in DocIds, x \in AssigneeIds : Assign(a, d, x)
    \/ \E a \in DocActors, d \in DocIds : SaveDraft(a, d)
    \/ \E a \in DocActors, d \in DocIds : Publish(a, d)

SpecDoc == Init /\ [][NextDoc]_vars

\* The tag ids an upload may name: a tag of each tenant and an id of no tag.
AllTagIds == {"g1", "g2", "g9"}

\* The document engine with uploads under any of the tags.
NextCreate ==
    \/ \E a \in Creators, g \in AllTagIds : Create(a, g)
    \/ \E a \in DocActors, d \in DocIds, x \in AssigneeIds : Assign(a, d, x)
    \/ \E a \in DocActors, d \in DocIds : SaveDraft(a, d)
    \/ \E a \in DocActors, d \in DocIds : Publish(a, d)

SpecCreate == Init /\ [][NextCreate]_vars

\* The assignment router: uploads, the pool of next-stage assignees, and
\* assignments to a member of the pool last returned.
NextAssignee ==
    \/ \E a \in Creators, g \in TagIds : Create(a, g)
    \/ \E a \in AnyTokens \cup Actors : GetAssignee(a)
    \/ \E a \in Creators \cup { b \in Actors : b.userId = "u3" }, d \in DocIds, x \in assignees :
          Assign(a, d, x)

SpecAssignee == Init /\ [][NextAssignee]_vars

\* The document routes and the reads of single documents.
NextView ==
    \/ NextDoc
    \/ \E a \in DocActors, d \in DocIds : GetDocument(a, d)

SpecView == Init /\ [][NextView]_vars

\* The document routes together with add-comment; assignments name the QA.
NextPublished ==
    \/ \E a \in Creators, g \in TagIds : Create(a, g)
    \/ \E a \in DocActors, d \in DocIds : Assign(a, d, "u4")
    \/ \E a \in DocActors, d \in DocIds : SaveDraft(a, d)
    \/ \E a \in DocActors, d \in DocIds : Publish(a, d)
    \/ \E a \in Creators : AddComment(a, DocId(1), "m1")

SpecPublished == Init /\ [][NextPublished]_vars

\* Documents are uploaded, and shares and downloads run as two requests at a
\* time, each a read step and a write step.
NextUsage ==
    \/ \E a \in Creators, t \in TagIds : Create(a, t)
    \/ \E q \in UsageProcs, a \in Creators, route \in UsageRoutes :
          UsageRead(q, a, route, DocId(1))
    \/ \E q \in UsageProcs : UsageWrite(q)

SpecUsage == Init /\ [][NextUsage]_vars

\* Uploads and add-comment requests that may overlap.
NextComment ==
    \/ \E a \in Creators, g \in TagIds : Create(a, g)
    \/ \E q \in DOMAIN cmt, a \in Creators, c \in CommentTexts :
          AddCommentRead(q, a, DocId(1), c)
    \/ \E q \in DOMAIN cmt : AddCommentWrite(q)

SpecComment == Init /\ [][NextComment]_vars

(***************************************************************************)
(* Invoice generation: one invocation at a time, and overlapping ones.     *)
(***************************************************************************)
NextGenSeq ==
    \/ Tick
    \/ GenStart(1, TRUE)
    \/ GenReadExisting(1)
    \/ GenStep(1)
    \/ \E a \in Actors, id \in {InvoiceId(1), InvoiceId(2)} : Submit(a, id)

SpecGenSeq == Init /\ [][NextGenSeq]_vars

NextGen ==
    \/ Tick
    \/ \E a \in Actors : ShareDocument(a)
    \/ \E p \in DOMAIN gen : GenStart(p, FALSE)
    \/ \E p \in DOMAIN gen : GenReadExisting(p)
    \/ \E p \in DOMAIN gen : GenStep(p)

SpecGen == Init /\ [][NextGen]_vars

(***************************************************************************)
(* Generation followed by adjustments that may overlap.                    *)
(***************************************************************************)
NextAdj ==
    \/ Tick
    \/ GenerateInvoices
    \/ \E q \in DOMAIN adj, id \in AdjIds, items \in LineItemLists :
          AdjRead(q, "invoices", id, items)
    \/ \E q \in DOMAIN adj : AdjWrite(q)

SpecAdj == Init /\ [][NextAdj]_vars

(***************************************************************************)
(* Adjustments of an invoice before and after its submission.              *)
(***************************************************************************)
NextSettled ==
    \/ Tick
    \/ GenerateInvoices
    \/ \E a \in Owners : Submit(a, InvoiceId(1))
    \/ \E items \in LineItemLists : AdjRead(1, "invoices", InvoiceId(1), items)
    \/ AdjWrite(1)

SpecSettled == Init /\ [][NextSettled]_vars

(***************************************************************************)
(* The submission workflow over the three invoice tables.                  *)
(***************************************************************************)
NextSubmit ==
    \/ Tick
    \/ \E a \in Actors : ShareDocument(a)
    \/ GenerateInvoices
    \/ \E a \in Actors : GenerateClientInvoices(a)
    \/ \E a \in Actors, t \in {"t1", "t9"}, c \in {"c1", "c9"} : CreateCustomInvoice(a, t, c)
    \/ \E a \in Actors, id \in InvoiceIds : Submit(a, id)

SpecSubmit == Init /\ [][NextSubmit]_vars

(***************************************************************************)
(* Properties of the document engine.                                      *)
(***************************************************************************)

\* C1: no create, assign, saveDraft or publish call decreases the
\* progress_number of any document.
ProgressNeverDecreases ==
    [][\A d \in DOMAIN documents :
          documents'[d].progress_number >= documents[d].progress_number]_vars

\* C11: save-draft by a role other than QA is answered 403 and changes nothing;
\* save-draft by QA is answered 200, sets progress_number = 3 on the named
\* document when it belongs to the actor's tenant, leaves its is_published and
\* every other column as they were, and changes no other document (none at all
\* when the named document belongs to another tenant).
SaveDraftOnlyQA ==
    [][\A a \in DocActors, d \in DocIds :
          (resp'.op = "save-draft" /\ SaveDraft(a, d))
          => IF ToLower(a.role) # "qa"
             THEN resp'.status = 403 /\ documents' = documents
             ELSE /\ resp'.status = 200
                  /\ DOMAIN documents' = DOMAIN documents
                  /\ \A e \in DOMAIN documents :
                        IF e = d /\ documents[e].company_id = a.companyId
                        THEN /\ documents'[e].progress_number = 3
                             /\ documents'[e].is_published = documents[e].is_published
                             /\ [documents'[e] EXCEPT !.progress_number = 0]
                                   = [documents[e] EXCEPT !.progress_number = 0]
                        ELSE documents'[e] = documents[e]]_vars

\* C11 witness: QA has saved a draft of a document of its tenant that is not published.
DraftSaved ==
    \E d \in DOMAIN documents :
        /\ resp = Resp("save-draft", 200, NoError)
        /\ documents[d].progress_number = 3
        /\ ~documents[d].is_published

\* C12: once a document has is_published = true, no assign, save-draft,
\* publish or add-comment call by any actor makes it false again.
PublishedStaysPublished ==
    [][\A d \in DOMAIN documents :
          documents[d].is_published
          => d \in DOMAIN documents' /\ documents'[d].is_published]_vars

\* C12 witness: a published document has since been assigned by an Indexer and
\* commented on, and the last call saved a draft of it.
PublishedThenTouched ==
    \E d \in DOMAIN documents :
        /\ documents[d].is_published
        /\ documents[d].qa_passed_id # Null
        /\ Len(documents[d].comments) > 0
        /\ resp = Resp("save-draft", 200, NoError)

\* C13: a document with is_published = true has progress_number = 3.
PublishedHasProgress3 ==
    \A d \in DOMAIN documents :
        documents[d].is_published => documents[d].progress_number = 3

\* The rule for showMore as stated: the originator, a Manager or an Owner sees it
\* while passed_to is unset; the document's indexer or QA handler sees it when
\* passed_to is that same actor and the document is not published; nobody else.
ShowMoreRule(a, document) ==
    IF \/ document.added_by = a.userId
       \/ ToLower(a.role) \in {"manager", "owner"}
    THEN document.passed_to = Null
    ELSE IF a.userId \in {document.indexer_passed_id, document.qa_passed_id}
         THEN document.passed_to = a.userId /\ ~document.is_published
         ELSE FALSE

\* C14: the showMore flag returned by GET /documents/:id equals the stated rule
\* for every actor and every document state.
ShowMoreFollowsRule ==
    [][\A a \in DocActors, d \in DOMAIN documents :
          (resp'.op = "get-document" /\ GetDocument(a, d))
          => view'.showMore = ShowMoreRule(a, documents[d])]_vars

\* C16: get-assignee answers without error for every role in any letter case;
\* Owner, Manager, Scanner and Client get the employees of their tenant whose
\* role is Indexer in any letter case, Indexer gets those whose role is QA in any
\* letter case, QA gets the empty list; nobody of another tenant is returned.
NextRoleMapping ==
    [][\A a \in AnyTokens \cup Actors :
          (resp'.op = "get-assignee" /\ GetAssignee(a))
          => LET r == ToLower(a.role)
                 employees(next) ==
                    { u \in DOMAIN users :
                        /\ users[u].company_id = a.companyId
                        /\ users[u].role \in { s \in RoleSpellings : ToLower(s) = next } }
             IN /\ resp'.status = 200
                /\ r \in {"owner", "manager", "scanner", "client"}
                      => assignees' = employees("indexer")
                /\ r = "indexer" => assignees' = employees("qa")
                /\ r = "qa" => assignees' = {}
                /\ \A u \in assignees' : users[u].company_id = a.companyId]_vars

\* C16 witness: an Indexer of tenant t2 was given its QA, whose role is stored
\* in lower case.
PoolReturned ==
    /\ resp = Resp("get-assignee", 200, NoError)
    /\ assignees = {"u6"}

\* C6: publish on a document that is already published (is_published = true,
\* progress_number = 3, as the first publish left it) succeeds and leaves every
\* document as it was; and any publish that reaches a document leaves it with
\* is_published = true, progress_number = 3 and all other fields unchanged.
PublishIdempotent ==
    [][\A a \in DocActors, d \in DOMAIN documents :
          (resp'.op = "publish" /\ documents[d].company_id = a.companyId /\ Publish(a, d))
          => /\ resp'.status = 200
             /\ documents'[d].is_published
             /\ documents'[d].progress_number = 3
             /\ documents'[d] = [documents[d] EXCEPT !.is_published = TRUE,
                                                      !.progress_number = 3]
             /\ (documents[d].is_published /\ documents[d].progress_number = 3
                    => documents' = documents)]_vars

\* C6 witness: a second publish has been served on a published document.
PublishedTwice ==
    \E d \in DOMAIN documents :
        /\ republished >= 1
        /\ resp = Resp("publish", 200, NoError)
        /\ documents[d].is_published
        /\ documents[d].progress_number = 3

\* C7: a publish call by an actor whose role is not QA is rejected with 403
\* and changes no document.
PublishOnlyQA ==
    [][\A a \in DocActors, d \in DOMAIN documents :
          (Publish(a, d) /\ documents[d].company_id = a.companyId /\ ToLower(a.role) # "qa")
          => (resp'.status = 403 /\ documents' = documents)]_vars

\* C9: a successful assign by Owner, Manager, Scanner or Client sets
\* indexer_passed_id and passed_to to the assignee and nothing else; a successful
\* assign by Indexer sets qa_passed_id, passed_to and progress_number = 2 and
\* nothing else; no other document changes.
AssignSetsBranchFields ==
    [][\A a \in DocActors, d \in DOMAIN documents, x \in AssigneeIds :
          (resp'.op = "assign" /\ resp'.status = 200 /\ Assign(a, d, x))
          => /\ \A e \in DOMAIN documents : e # d => documents'[e] = documents[e]
             /\ documents'[d].passed_to = x
             /\ documents'[d].is_published = documents[d].is_published
             /\ documents'[d].company_id = documents[d].company_id
             /\ documents'[d].added_by = documents[d].added_by
             /\ documents'[d].role = documents[d].role
             /\ documents'[d].comments = documents[d].comments
             /\ documents'[d].tag_id = documents[d].tag_id
             /\ documents'[d].properties = documents[d].properties
             /\ ToLower(a.role) \in {"owner", "manager", "scanner", "client", "indexer"}
             /\ ToLower(a.role) \in {"owner", "manager", "scanner", "client"}
                   => /\ documents'[d].indexer_passed_id = x
                      /\ documents'[d].progress_number = documents[d].progress_number
                      /\ documents'[d].qa_passed_id = documents[d].qa_passed_id
             /\ ToLower(a.role) = "indexer"
                   => /\ documents'[d].qa_passed_id = x
                      /\ documents'[d].progress_number = 2
                      /\ documents'[d].indexer_passed_id = documents[d].indexer_passed_id]_vars

\* C9 witness: a Scanner-side assign followed by an Indexer's assign has been served.
AssignedByBothBranches ==
    \E d \in DOMAIN documents :
        /\ resp = Resp("assign", 200, NoError)
        /\ documents[d].indexer_passed_id = "u3"
        /\ documents[d].qa_passed_id = "u4"
        /\ documents[d].passed_to = "u4"
        /\ documents[d].progress_number = 2

AssignRoles == {"owner", "manager", "scanner", "client", "indexer"}

\* C10 as claimed: a role outside Owner, Manager, Scanner, Client, Indexer gets
\* 403, a document outside the actor's tenant gets 404, and both leave every
\* document unchanged.
AssignRejects ==
    [][\A a \in DocActors, d \in DOMAIN documents, x \in AssigneeIds :
          Assign(a, d, x)
          => /\ ToLower(a.role) \notin AssignRoles => resp'.status = 403
             /\ documents[d].company_id # a.companyId => resp'.status = 404
             /\ (\/ ToLower(a.role) \notin AssignRoles
                 \/ documents[d].company_id # a.companyId) => documents' = documents]_vars

\* C10 amended: the tenant check comes first. A document outside the actor's
\* tenant gets 404 whatever the role; a document of the actor's tenant and a role
\* outside Owner, Manager, Scanner, Client, Indexer gets 403; both leave every
\* document unchanged.
AssignRejectsTenantFirst ==
    [][\A a \in DocActors, d \in DocIds, x \in AssigneeIds :
          (resp'.op = "assign" /\ Assign(a, d, x))
          => LET mine == d \in DOMAIN documents /\ documents[d].company_id = a.companyId
                 bad  == ToLower(a.role) \notin AssignRoles
             IN /\ ~mine => resp'.status = 404
                /\ (mine /\ bad) => resp'.status = 403
                /\ (~mine \/ bad) => documents' = documents
                /\ (mine /\ ~bad) => resp'.status = 200]_vars

\* C10 witness: an assign on an existing document was rejected with 403.
AssignForbiddenSeen ==
    /\ resp = Resp("assign", 403, "You are not allowed to assign from your role.")
    /\ documents # <<>>

(***************************************************************************)
(* Properties of the invoice engine.                                       *)
(***************************************************************************)
InvoicesOf(t, label) ==
    { i \in DOMAIN invoices :
        invoices[i].company_id = t /\ invoices[i].invoice_month = label }

\* Whether a company row is due for billing in a month.
Due(company, month) ==
    /\ company.plan_id \in DOMAIN plans
    /\ MonthDifference(month, ReferenceDate(company))
          >= OrOne(plans[company.plan_id].billing_duration)

\* C2: with invocations of generate-invoices served one after the other, no
\* (tenant, period) pair ever has two invoice rows, and once an invocation has
\* completed, every Active tenant that was due for billing when it ran has
\* exactly one invoice row for the period of the invocation.
GenerateOncePerPeriod ==
    /\ \A t \in DOMAIN companies, m \in 11..(11 + MaxMonths) :
          Cardinality(InvoicesOf(t, PeriodLabel(m))) <= 1
    /\ \A p \in DOMAIN gen :
          gen[p].pc = "done"
          => \A t \in DOMAIN gen[p].companies :
                Due(gen[p].companies[t], gen[p].month)
                => Cardinality(InvoicesOf(t, PeriodLabel(gen[p].month))) = 1

\* C2 witness: a second invocation in the same period has completed for a due
\* tenant and found the invoice of the first.
GeneratedAgain ==
    \E p \in DOMAIN gen :
        /\ gen[p].pc = "done"
        /\ Due(gen[p].companies["t1"], gen[p].month)
        /\ gen[p].results["t1"] = "Invoice already exists"
        /\ Cardinality(InvoicesOf("t1", PeriodLabel(gen[p].month))) = 1

\* C15: an invoice generated for usage {shared 2000, downloaded 500, uploaded 50}
\* on the plan {monthly 100, 5 per 1000 shares, 3 per 1000 downloads, 2 per 10
\* uploads} has shared_amount 10.0000, download_amount 1.5000, upload_amount
\* 10.0000 and total 121.5000; and every generated invoice's total is the sum of
\* its components rounded to 4 decimals, each component a multiple of 1e-4.
ExampleAmounts ==
    \A i \in DOMAIN invoices :
        LET inv == invoices[i] IN
        /\ (/\ companies[inv.company_id].plan_id = "p3"
            /\ inv.document_shared = 2000
            /\ inv.document_downloaded = 500
            /\ inv.document_uploaded = 50)
           => /\ inv.monthly = 10000000
              /\ inv.shared_amount = 1000000
              /\ inv.download_amount = 150000
              /\ inv.upload_amount = 1000000
              /\ inv.invoice_value = 12150000
        /\ inv.shared_amount % 10 = 0
        /\ inv.download_amount % 10 = 0
        /\ inv.upload_amount % 10 = 0
        /\ inv.invoice_value
              = Round4(inv.monthly + inv.shared_amount + inv.download_amount + inv.upload_amount)

\* C15 witness: the invoice of the example has been generated.
ExampleInvoiced ==
    \E i \in DOMAIN invoices :
        /\ companies[invoices[i].company_id].plan_id = "p3"
        /\ invoices[i].document_shared = 2000
        /\ invoices[i].document_downloaded = 500
        /\ invoices[i].document_uploaded = 50
        /\ invoices[i].invoice_value = 12150000

\* C3: no tenant has more than one invoice row for the same period label, also
\* when invocations of generate-invoices overlap.
NoDuplicateInvoices ==
    \A i, j \in DOMAIN invoices :
        (/\ invoices[i].company_id = invoices[j].company_id
         /\ invoices[i].invoice_month = invoices[j].invoice_month) => i = j

\* The components of an invoice plus its stored line items.
ComponentsTotal(inv) ==
    inv.monthly + inv.shared_amount + inv.download_amount + inv.upload_amount
    + SumAmmount(inv.other_invoices)

\* The same within the rounding tolerance of 1e-4 (10 money units).
InvoiceValueWithinTolerance ==
    \A i \in DOMAIN invoices :
        Abs(invoices[i].invoice_value - ComponentsTotal(invoices[i])) <= 10

\* C4: the stored value of every invoice equals monthly + shared_amount +
\* download_amount + upload_amount + the sum of the amounts of its stored
\* other_invoices line items.
InvoiceValueConsistent ==
    \A i \in DOMAIN invoices :
        invoices[i].invoice_value = ComponentsTotal(invoices[i])

MustSubmitFirst ==
    { "Invoice must be submitted first by the company.",
      "Invoice must be submitted first.",
      "Client must submit the invoice first." }

\* The approver of an invoice: Admin for a tenant invoice and a tenant-directed
\* custom invoice, Owner for a client invoice and a client-directed custom invoice.
IsApprover(a, id) ==
    \/ id \in DOMAIN invoices /\ ToLower(a.role) = "admin"
    \/ id \in DOMAIN client_invoices /\ ToLower(a.role) = "owner"
    \/ /\ id \in DOMAIN custom_invoices
       /\ ToLower(a.role) = (IF custom_invoices[id].is_client THEN "owner" ELSE "admin")

InvoiceAt(id) ==
    IF id \in DOMAIN invoices THEN invoices[id]
    ELSE IF id \in DOMAIN custom_invoices THEN custom_invoices[id]
    ELSE client_invoices[id]

AdminImpliesSubmitted(table) ==
    \A i \in DOMAIN table : table[i].invoice_submitted_admin => table[i].invoice_submitted

\* C5: for every invoice kind, the approver's submit call on an invoice with
\* invoice_submitted = false fails with a 'must be submitted first' error and
\* changes nothing, it succeeds and sets invoice_submitted_admin once the invoice
\* is submitted, and invoice_submitted_admin implies invoice_submitted.
ApprovalGatedOnSubmission ==
    [][\A a \in Actors, id \in DOMAIN invoices \cup DOMAIN custom_invoices
                              \cup DOMAIN client_invoices :
          (Submit(a, id) /\ IsApprover(a, id))
          => /\ ~InvoiceAt(id).invoice_submitted
                   => /\ resp'.status = 400
                      /\ resp'.error \in MustSubmitFirst
                      /\ UNCHANGED <<invVars, companies, clients>>
             /\ InvoiceAt(id).invoice_submitted
                   => /\ resp'.status = 200
                      /\ InvoiceAt(id)'.invoice_submitted_admin
             /\ AdminImpliesSubmitted(invoices')
             /\ AdminImpliesSubmitted(custom_invoices')
             /\ AdminImpliesSubmitted(client_invoices')]_vars

\* C17: submit answers 404 exactly when none of the three invoice tables holds
\* the id; for an id that exists it answers success, 403 or 'must be submitted
\* first', whatever the caller's role.
SubmitNotFoundIffAbsent ==
    [][\A a \in Actors, id \in InvoiceIds :
          (resp'.op = "submit" /\ Submit(a, id))
          => (resp'.status = 404
                <=> id \notin (DOMAIN invoices \cup DOMAIN custom_invoices
                                 \cup DOMAIN client_invoices))]_vars

\* C8: a non-admin submit of a tenant invoice sets its invoice_submitted, resets
\* the usage counters of the tenant the invoice belongs to and stamps that
\* tenant's last_invoice_paid; no other tenant's row changes.
SubmitResetsInvoiceTenant ==
    [][\A a \in Actors, id \in DOMAIN invoices :
          (Submit(a, id) /\ ToLower(a.role) # "admin")
          => LET owner == invoices[id].company_id IN
             /\ invoices'[id].invoice_submitted
             /\ companies'[owner].document_shared = 0
             /\ companies'[owner].document_downloaded = 0
             /\ companies'[owner].document_uploaded = 0
             /\ companies'[owner].last_invoice_paid = <<now>>
             /\ \A t \in DOMAIN companies : t # owner => companies'[t] = companies[t]]_vars


\* C18: usage-counter increments are not atomic.  Every increment writes the
\* value it read earlier plus one, whatever the counter holds by then, and
\* answers success; so two overlapping requests can leave the counter one
\* higher instead of two.
IncrementWritesReadValue ==
    [][\A q \in UsageProcs :
          (resp'.op \in UsageRoutes /\ UsageWrite(q)) =>
              /\ (IF inc[q].table = "clients" THEN clients' ELSE companies')
                     [inc[q].id][UsageField(inc[q].route)] = inc[q].currentCount + 1
              /\ resp'.status = UsageSuccess(inc[q].route)]_vars

\* Two overlapping shares were both answered with success and the counter shows one.
UpdateLost ==
    /\ lost_updates >= 1
    /\ resp = Resp("share-document", 201, NoError)
    /\ \A q \in UsageProcs : inc[q].pc = "idle"
    /\ companies["t1"].document_shared = 1


\* C19: add-comment is last-write-wins.  Every write of a comment list stores
\* the list its request read plus exactly one entry at the end and answers
\* 200: when nothing was written in between, the stored list is the previous
\* list with one entry appended and the earlier entries in order; when two
\* requests read the same list, the second write stores that list plus its own
\* entry only, one new comment instead of two.
CommentLastWriteWins ==
    [][\A q \in CommentProcs :
          (resp'.op = "add-comment" /\ AddCommentWrite(q)) =>
              LET id       == cmt[q].id
                  read     == cmt[q].existingComments
                  previous == documents[id].comments
                  stored   == documents'[id].comments IN
              /\ resp'.status = 200
              /\ Len(stored) = Len(read) + 1
              /\ SubSeq(stored, 1, Len(read)) = read
              /\ previous = read =>
                    /\ Len(stored) = Len(previous) + 1
                    /\ \A i \in 1..Len(previous) : stored[i] = previous[i]]_vars

\* Two overlapping add-comment calls were both answered 200 and one comment is stored.
CommentLost ==
    /\ overwritten >= 1
    /\ resp = Resp("add-comment", 200, NoError)
    /\ \A q \in CommentProcs : cmt[q].pc = "idle"
    /\ DocId(1) \in DOMAIN documents
    /\ Len(documents[DocId(1)].comments) = 1


\* What a reminder run must leave behind for the set of invoices that were due:
\* one send attempt and one result entry per due invoice and no others, the
\* entry of an invoice marked failed exactly when its send failed.
RemindedExactly(table, due, failing, log) ==
    /\ Len(log.attempts) = Cardinality(due)
    /\ { log.attempts[i] : i \in 1..Len(log.attempts) } = due
    /\ Len(log.results) = Len(log.attempts)
    /\ \A i \in 1..Len(log.attempts) :
          LET id == log.attempts[i] IN
          /\ table[id].invoice_submitted = FALSE
          /\ table[id].invoice_month = PeriodLabel(now)
          /\ (log.results[i].status = "Failed to send reminder") = (id \in failing)
          /\ ("error" \in DOMAIN log.results[i]) = (id \in failing)
          /\ IF id[1] = "invoices"
             THEN log.results[i].company = table[id].company_id
             ELSE log.results[i].email = table[id].email

\* C20: the reminder job makes exactly one send attempt and reports exactly
\* one result entry for every invoice of the current period with
\* invoice_submitted = false (of the caller's tenant, for the client
\* invoices), and none for submitted invoices; a failed send is recorded in
\* that invoice's entry, the other invoices are still sent and the request
\* answers 200.
RemindersPerUnpaidInvoice ==
    [][/\ LET due == { id \in DOMAIN invoices :
                          /\ ~invoices[id].invoice_submitted
                          /\ invoices[id].invoice_month = PeriodLabel(now) } IN
          \A failing \in SUBSET due :
             (resp'.op = "remind-invoices" /\ RemindInvoices(failing)) =>
                 /\ resp'.status = 200
                 /\ RemindedExactly(invoices, due, failing, reminders')
       /\ \A a \in Owners :
          LET due == { id \in DOMAIN client_invoices :
                          /\ ~client_invoices[id].invoice_submitted
                          /\ client_invoices[id].invoice_month = PeriodLabel(now)
                          /\ client_invoices[id].company_id = a.companyId } IN
          \A failing \in SUBSET due :
             (resp'.op = "remind-unpaid-client-invoices" /\ RemindClientInvoices(a, failing)) =>
                 /\ resp'.status = 200
                 /\ RemindedExactly(client_invoices, due, failing, reminders')]_vars

\* A run over three invoices of the current month, one of them submitted:
\* the first send failed, the second went out, the submitted invoice has no
\* entry, and the request was answered 200.
FailedThenSent ==
    /\ resp = Resp("remind-invoices", 200, NoError)
    /\ Len(reminders.results) = 2
    /\ reminders.results[1].status = "Failed to send reminder"
    /\ reminders.results[2].status = "Reminder email sent"
    /\ reminders.attempts[1] # reminders.attempts[2]
    /\ \E id \in DOMAIN invoices :
          /\ invoices[id].invoice_month = PeriodLabel(now)
          /\ invoices[id].invoice_submitted
          /\ \A i \in 1..Len(reminders.attempts) : reminders.attempts[i] # id


\* C21: login falls back to the clients table on an employee password
\* mismatch.  When an employee with the given email exists whose password
\* does not match, and a client with that email and the given password exists
\* with active status in an Active tenant, login answers 200 and issues a
\* token with role Client.
LoginFallsBackToClient ==
    [][\A email \in Emails, password \in Passwords :
          ( /\ resp'.op = "login"
            /\ Login(email, password)
            /\ \E u \in DOMAIN logins.users :
                  logins.users[u].email = email /\ logins.users[u].password # password
            /\ \E c \in DOMAIN clients :
                  /\ clients[c].email = email
                  /\ logins.clients[c].password = password
                  /\ clients[c].status = "active"
                  /\ clients[c].company_id \in DOMAIN companies
                  /\ companies[clients[c].company_id].status = "Active" )
          => resp'.status = 200 /\ session'.role = "Client"]_vars


\* C22: create requires the tag to belong to the actor's tenant.  A create
\* call whose tag_id names a tag of another tenant, or no tag, fails, inserts
\* no document and increments no upload counter; a successful create yields a
\* document with progress_number 1, is_published false, passed_to,
\* indexer_passed_id and qa_passed_id unset, and the properties of that
\* tenant's tag with empty values.
CreateRequiresOwnTag ==
    [][\A a \in Creators, g \in AllTagIds :
          (resp'.op = "create" /\ Create(a, g)) =>
              IF g \in DOMAIN document_tags /\ document_tags[g].company_id = a.companyId
              THEN resp'.status = 201 =>
                      \E d \in DOMAIN documents' \ DOMAIN documents :
                         /\ documents'[d].progress_number = 1
                         /\ documents'[d].is_published = FALSE
                         /\ documents'[d].passed_to = Null
                         /\ documents'[d].indexer_passed_id = Null
                         /\ documents'[d].qa_passed_id = Null
                         /\ documents'[d].company_id = a.companyId
                         /\ Len(documents'[d].properties) = Len(document_tags[g].properties)
                         /\ \A i \in 1..Len(documents'[d].properties) :
                               /\ documents'[d].properties[i].title
                                     = document_tags[g].properties[i].title
                               /\ documents'[d].properties[i].value = ""
              ELSE /\ resp'.status >= 400
                   /\ documents' = documents
                   /\ companies' = companies
                   /\ clients' = clients]_vars


\* C23: each unit of tenant usage is billed in at most one generated invoice.
\* While a tenant's counters have never been reset, they count every share the
\* tenant ever made, so the shares billed by two invoices of the tenant for
\* different periods together are no more than the counter: what the earlier
\* invoice included is not included again in the later one, also when the
\* earlier one was never submitted.
UsageBilledOnce ==
    \A i, j \in DOMAIN invoices :
       LET t == invoices[i].company_id IN
       ( /\ i # j
         /\ invoices[j].company_id = t
         /\ invoices[i].invoice_month # invoices[j].invoice_month
         /\ t \in DOMAIN companies
         /\ companies[t].last_invoice_paid = <<>> )
       => invoices[i].document_shared + invoices[j].document_shared
             <= companies[t].document_shared


\* The usage counters of a companies row.
UsageFields == {"document_shared", "document_downloaded", "document_uploaded"}

\* C24: no usage is discarded unbilled.  Whenever a step lowers a usage
\* counter of a tenant, every unit the counter held is in the usage figure of
\* an invoice that was generated for that tenant: some invoice of the tenant
\* carries a figure at least as high as the counter was.
NoUsageDiscarded ==
    [][\A c \in DOMAIN companies, f \in UsageFields :
          companies'[c][f] < companies[c][f] =>
              \E i \in DOMAIN invoices :
                 /\ invoices[i].company_id = c
                 /\ invoices[i][f] >= companies[c][f]]_vars


\* C25: submitting is idempotent on usage state.  A submit call by a caller
\* other than the admin on a tenant invoice that already has
\* invoice_submitted = true leaves the usage counters and last_invoice_paid
\* of the invoice's tenant as they were.
ResubmitKeepsUsage ==
    [][\A a \in Actors, id \in DOMAIN invoices :
          ( /\ resp'.op = "submit"
            /\ ToLower(a.role) # "admin"
            /\ invoices[id].invoice_submitted = TRUE
            /\ Submit(a, id) )
          => LET c == invoices[id].company_id IN
             /\ companies'[c].last_invoice_paid = companies[c].last_invoice_paid
             /\ \A f \in UsageFields : companies'[c][f] = companies[c][f]]_vars


\* C26: a tenant invoice's invoice_submitted flag can be set only by an actor
\* of the tenant the invoice belongs to.  A submit call by a caller other than
\* the admin whose token names another tenant than the invoice's company_id
\* does not change that invoice.
SubmitOnlyByInvoiceTenant ==
    [][\A a \in Actors, id \in DOMAIN invoices :
          ( /\ resp'.op = "submit"
            /\ ToLower(a.role) # "admin"
            /\ a.companyId # invoices[id].company_id
            /\ Submit(a, id) )
          => invoices'[id] = invoices[id]]_vars


\* C27: no document reaches QA without having been handed to an indexer.  In
\* every reachable state a document with qa_passed_id set also has
\* indexer_passed_id set.
QaOnlyAfterIndexer ==
    \A d \in DOMAIN documents :
       documents[d].qa_passed_id # Null => documents[d].indexer_passed_id # Null

\* C28: no pipeline stage is skipped.  No step takes a document's
\* progress_number from 1 directly to 3: save-draft and publish take effect
\* only on a document with progress_number 2.
NoStageSkipped ==
    [][\A d \in DOMAIN documents :
          ~(documents[d].progress_number = 1 /\ documents'[d].progress_number = 3)]_vars


\* C29: after every successful assign, passed_to is an employee of the
\* document's tenant whose role is the next role for the actor (Indexer for
\* Owner, Manager, Scanner and Client, QA for Indexer), a member of the pool
\* get-assignee returns for that actor; an assignee_id outside that pool is
\* rejected and changes no document.
AssigneeFromPool ==
    [][\A a \in DocActors, d \in DOMAIN documents, x \in AssigneeIds :
          (resp'.op = "assign" /\ Assign(a, d, x))
          => LET r    == ToLower(a.role)
                 next == IF r \in {"owner", "manager", "scanner", "client"} THEN "indexer"
                         ELSE IF r = "indexer" THEN "qa" ELSE Null
                 pool == { u \in DOMAIN users :
                             /\ users[u].company_id = documents[d].company_id
                             /\ users[u].company_id = a.companyId
                             /\ ToLower(users[u].role) = next }
             IN IF x \in pool
                THEN resp'.status = 200 => documents'[d].passed_to = x
                ELSE resp'.status >= 400 /\ documents' = documents]_vars


\* C30: a settled invoice is immutable.  Once an invoice has
\* invoice_submitted = true, no step changes its invoice_value or its
\* other_invoices line items.
SettledInvoiceImmutable ==
    [][\A id \in DOMAIN invoices :
          invoices[id].invoice_submitted = TRUE
          => /\ invoices'[id].invoice_value = invoices[id].invoice_value
             /\ invoices'[id].other_invoices = invoices[id].other_invoices]_vars

====
